---- MODULE Spec2Model ----
(***************************************************************************)
(* A model of hooplab/pdf-renderer: the puppeteer browser pool             *)
(* (createPuppeteerPool: factory create / destroy / validate over          *)
(* generic-pool), the render pipeline (render) and the renderer facade     *)
(* (createRenderer: render / isHealthy).                                   *)
(*                                                                         *)
(* The repository holds several revisions of lib/pdf.ts.  Spec models the  *)
(* revision in src/src/server.ts (lines 75-335: acquire/release in a       *)
(* try/finally, a total timeout raced against the pipeline, and            *)
(* acquireTimeoutMillis).  SpecLib models the revision in                  *)
(* src/src/lib/pdf.ts (pool.use, no total timeout, no acquire timeout).    *)
(* SpecSteps follows one render call through the calls of its pipeline in  *)
(* each revision; SpecTimeout applies the choice of the total timeout and  *)
(* SpecRequest the translation of a request body (domain/pdf/request.ts).  *)
(*                                                                         *)
(* The pool itself is the generic-pool library configured by               *)
(* genericPool.createPool(factory, {min, max, autostart, testOnBorrow,     *)
(* acquireTimeoutMillis}); its operations (acquire, release, _dispense,    *)
(* _testOnBorrow, _destroy, _ensureMinimum, the priority queue) are        *)
(* modelled as the library executes them for these options.  One action    *)
(* is one event-loop task together with the promise continuations it       *)
(* triggers: Node runs them to completion before the next task.            *)
(***************************************************************************)
EXTENDS Integers, Sequences, FiniteSets, TLC

(* ------------------------------ bounds -------------------------------- *)
\* poolOptions.min / poolOptions.max as passed to launch
PoolMin == 1
PoolMax == 2
\* number of concurrent callers of renderer.render
NumRenders == 3
\* number of concurrent callers of renderer.isHealthy
NumProbes == 1
\* how many times factory.create may be called in one behaviour
MaxCreates == 3
\* how many of these calls may fail
MaxCreateFails == 1
\* how many browser processes may exit unexpectedly in one behaviour
MaxCrashes == 1
\* the largest of the small values of options.timeout (in ms) that are tried
MaxTimeoutMs == 25

(* ------------------------- program constants -------------------------- *)
LOW_PRIORITY == 0
HIGH_PRIORITY == 1
\* generic-pool's priorityRange: createPool is given none, the default is 1
PriorityRange == 1
\* const defaultTimeoutMs = 25000
defaultTimeoutMs == 25000

(* ------------------------------- sets --------------------------------- *)
Inst == 1..MaxCreates
\* process ids the operating system hands out, named in the order of their
\* first use; an id is free again as soon as its process has exited
Pids == 1..MaxCreates
Renders == 1..NumRenders
Probes == (NumRenders + 1)..(NumRenders + NumProbes)
Callers == Renders \cup Probes

VARIABLES
  minOpt,        \* poolOptions.min as passed to launch
  rev,           \* which revision of the render function and facade runs
  st,            \* Inst -> lifecycle of the pooled browser
  pid,           \* Inst -> browser.process().pid (0: not launched)
  proc,          \* Inst -> state of the browser process and its 'disconnected' event
  shouldRepair,  \* Pids -> "absent" | "false" | "true": the shouldRepair map
  avail,         \* the pool's available objects, oldest first
  queue,         \* the pool's waiting clients: one sequence per priority slot
  nxt,           \* the next Inst a factory.create call launches
  fails,         \* factory.create calls that have failed
  crashes,       \* browser processes that have exited unexpectedly
  pc,            \* Callers -> where the facade call is
  held,          \* Callers -> the browser the call has acquired (0: none)
  res,           \* Callers -> the outcome of the call
  pipe,          \* Renders -> "running" while render(browser, options) is pending
  pinst,         \* Renders -> the browser the pipeline runs against (0: none)
  job,           \* the RenderOptions of the render call followed step by step
  at,            \* the call of that pipeline that is awaited ("none": none)
  ran,           \* the calls that pipeline has made so far, in order
  timer,         \* "set" while the setTimeout of that call's timeout() is pending
  resp,          \* the status of the response page.goto resolved with
  page,          \* that pipeline's page: "open" | "closed"; before newPage
                 \* resolves "earlier" when a page of an earlier call of the
                 \* followed caller exists, "none" when no page exists
  evt,           \* the last 'error' / 'requestfailed' event of these pages
                 \* since the call started
  down,          \* the node process was ended by an uncaught exception
  body,          \* the request body handed to pdfBodyToRenderOptions
  options,       \* the RenderOptions of the call whose arguments are followed
  timeoutMs      \* the delay that call passed to timeout() (-1: none yet)

vars == <<minOpt, rev, st, pid, proc, shouldRepair, avail, queue, nxt, fails,
          crashes, pc, held, res, pipe, pinst, job, at, ran, timer, resp, page,
          evt, down, body, options, timeoutMs>>

\* generic-pool PoolOptions: max is at least 1 and min is at most max
MaxSize == IF PoolMax < 1 THEN 1 ELSE PoolMax
MinSize == IF minOpt > MaxSize THEN MaxSize ELSE minOpt

(* ----------------------- the state as one record ----------------------- *)
\* The handlers below are written as functions from state to state; "over"
\* is set when a handler would call factory.create beyond MaxCreates.
Cur ==
  [st |-> st, pid |-> pid, proc |-> proc, shouldRepair |-> shouldRepair,
   avail |-> avail, queue |-> queue, nxt |-> nxt, fails |-> fails,
   crashes |-> crashes, pc |-> pc, held |-> held, res |-> res,
   pipe |-> pipe, pinst |-> pinst, job |-> job, at |-> at, ran |-> ran,
   timer |-> timer, resp |-> resp, page |-> page, evt |-> evt, down |-> down, over |-> FALSE]

\* the handler's result s is the next state (s is evaluated once)
Becomes(s) ==
  \E x \in {s} :
    /\ ~x.over
    /\ minOpt' = minOpt /\ rev' = rev
    /\ st' = x.st /\ pid' = x.pid /\ proc' = x.proc
    /\ shouldRepair' = x.shouldRepair
    /\ avail' = x.avail /\ queue' = x.queue /\ nxt' = x.nxt
    /\ fails' = x.fails /\ crashes' = x.crashes
    /\ pc' = x.pc /\ held' = x.held /\ res' = x.res
    /\ pipe' = x.pipe /\ pinst' = x.pinst
    /\ job' = x.job /\ at' = x.at /\ ran' = x.ran
    /\ timer' = x.timer /\ resp' = x.resp /\ page' = x.page /\ evt' = x.evt /\ down' = x.down
    /\ body' = body /\ options' = options /\ timeoutMs' = timeoutMs

\* Op applied to the value of e (e is evaluated once)
Then(e, Op(_)) == CHOOSE r \in {Op(x) : x \in {e}} : TRUE

(* --------------------- generic-pool: bookkeeping ----------------------- *)
\* Pool._count: pooled objects plus factory.create calls in flight
Live(s) == {i \in Inst : s.st[i] \in {"creating", "idle", "borrowed"}}
Count(s) == Cardinality(Live(s))
Borrowed(s) == {i \in Inst : s.st[i] = "borrowed"}
\* (mutation of SpareResourceCapacity: max is not applied)
SpareUnbounded(s) == MaxCreates

\* Pool.spareResourceCapacity
SpareResourceCapacity(s) == MaxSize - Count(s)
\* Pool._potentiallyAllocableResourceCount
PotentiallyAllocable(s) ==
  Len(s.avail) + Cardinality({i \in Inst : s.st[i] = "creating"})

RECURSIVE SlotsLen(_, _)
SlotsLen(q, k) == IF k = 0 THEN 0 ELSE Len(q[k]) + SlotsLen(q, k - 1)
\* PriorityQueue.length
QueueLen(q) == SlotsLen(q, Len(q))

\* PriorityQueue.enqueue: a priority outside 0..size-1 goes to the last slot
Enqueue(q, c, priority) ==
  LET p == IF priority # 0 /\ (priority < 0 \/ priority >= Len(q))
           THEN Len(q) - 1 ELSE priority
  IN [q EXCEPT ![p + 1] = Append(@, c)]

\* PriorityQueue.dequeue: the head of the first slot that is not empty
FirstSlot(q) == CHOOSE k \in 1..Len(q) :
                  /\ Len(q[k]) > 0
                  /\ \A j \in 1..(k - 1) : Len(q[j]) = 0
QueueHead(q) == Head(q[FirstSlot(q)])
Dequeue(q) == [q EXCEPT ![FirstSlot(q)] = Tail(@)]

\* Queue._createTimeoutRejectionHandler: a timed-out request leaves the queue
RECURSIVE Without(_, _)
Without(seq, c) ==
  IF seq = <<>> THEN <<>>
  ELSE IF Head(seq) = c THEN Without(Tail(seq), c)
       ELSE <<Head(seq)>> \o Without(Tail(seq), c)
RemoveRequest(q, c) == [k \in 1..Len(q) |-> Without(q[k], c)]

(* ------------------------ factory (server.ts) -------------------------- *)
\* (mutation of Validate: every browser passes)
ValidateAlways(s, i) == TRUE

\* factory.validate: false iff shouldRepair[pid] is true
Validate(s, i) == s.shouldRepair[s.pid[i]] # "true"

\* factory.destroy up to its await: delete shouldRepair[pid]; browser.close()
FactoryDestroy(s, i) ==
  [s EXCEPT !.shouldRepair[s.pid[i]] = "absent"]

\* Pool._createResource: factory.create() is called, the launch is in flight
CreateResource(s) ==
  IF s.nxt > MaxCreates THEN [s EXCEPT !.over = TRUE]
  ELSE [s EXCEPT !.st[s.nxt] = "creating", !.nxt = s.nxt + 1]

RECURSIVE CreateResources(_, _)
CreateResources(s, k) ==
  IF k <= 0 \/ s.over THEN s ELSE CreateResources(CreateResource(s), k - 1)

\* Pool._ensureMinimum
EnsureMinimum(s) == CreateResources(s, MinSize - Count(s))

\* (mutation of PoolDestroy: the pool is not refilled to min)
PoolDestroyNoRefill(s, i) ==
  FactoryDestroy([s EXCEPT !.st[i] = "destroyed"], i)

\* Pool._destroy: drop the object, call factory.destroy, refill to min
PoolDestroy(s, i) ==
  EnsureMinimum(FactoryDestroy([s EXCEPT !.st[i] = "destroyed"], i))

(* --------------------- generic-pool: dispensing ------------------------ *)
\* Pool._dispatchPooledResourceToNextWaitingClient: the request leaves the
\* queue, the object is lent (ResourceLoan) and acquire() resolves for c
Allocate(s, c, i) ==
  [s EXCEPT !.queue = Dequeue(s.queue), !.st[i] = "borrowed", !.held[c] = i]

\* Pool.release up to its call of _dispense: the loan ends, the object is
\* idle again and goes to the back of the available objects
ReleaseToPool(s, c, i) ==
  [s EXCEPT !.st[i] = "idle", !.avail = Append(@, i), !.held[c] = 0]

\* no RenderOptions: no render call is being followed step by step
NoJob == [src |-> "no call", selector |-> FALSE, xpath |-> FALSE,
          media |-> FALSE, fit |-> FALSE]

\* render(browser, options) calls a puppeteer function and awaits it
Await(s, call) == [s EXCEPT !.at = call, !.ran = Append(@, call)]

\* the revisions whose pool options set acquireTimeoutMillis (10000)
AcquireTimeoutRevisions == {"server.ts", "part_001"}

\* the revisions whose facade races the pipeline against timeout()
TimedRevisions == {"server.ts", "part_001"}

\* createRenderer.render after `await pool.acquire(LOW_PRIORITY)`: the
\* pipeline render(browser, options) starts with browser.newPage() and is
\* raced against the timer, which timeout() sets
RenderAcquired(s, c, i) ==
  LET a == [s EXCEPT !.pc[c] = "racing", !.pipe[c] = "running", !.pinst[c] = i]
  IN IF s.job = NoJob THEN a
     ELSE [Await(a, "newPage") EXCEPT
             !.timer = IF rev \in TimedRevisions THEN "set" ELSE "none"]

\* (mutation of ProbeAcquired: isHealthy returns true without releasing)
ProbeAcquiredKeep(s, c, i) ==
  [s EXCEPT !.pc[c] = "done", !.res[c] = "true"]

\* createRenderer.isHealthy after `await pool.acquire(HIGH_PRIORITY)`:
\* pool.release(browser); return true
ProbeAcquired(s, c, i) ==
  [ReleaseToPool(s, c, i) EXCEPT !.pc[c] = "done", !.res[c] = "true"]

\* an object that passed validation is handed to the next waiting client,
\* whose continuation runs
Dispatch(s, i) ==
  LET c == QueueHead(s.queue)
      a == Allocate(s, c, i)
  IN IF c \in Renders THEN RenderAcquired(a, c, i) ELSE ProbeAcquired(a, c, i)

\* (mutation of TakeAvailable: the object under validation stays available)
TakeAvailableKeep(s) == s

\* Pool._testOnBorrow: the oldest available object is taken out for validation
TakeAvailable(s) == [s EXCEPT !.avail = Tail(@)]

\* Pool._testOnBorrow and the continuation of the validation: a valid
\* object is handed out, an invalid one is destroyed; _dispense runs again
RECURSIVE Dispense(_)
TestOnBorrow(s) ==
  IF s.over \/ s.avail = <<>> THEN s
  ELSE IF Validate(s, Head(s.avail))
       THEN Then(Dispatch(TakeAvailable(s), Head(s.avail)), Dispense)
       ELSE Then(PoolDestroy(TakeAvailable(s), Head(s.avail)), Dispense)

\* (mutation of Dispense: no object is created for the waiting clients)
DispenseIdleOnly(s) ==
  IF QueueLen(s.queue) < 1 \/ s.over THEN s ELSE TestOnBorrow(s)

\* Pool._dispense with testOnBorrow: create what the waiting clients lack
\* (up to max), then validate available objects for them
Dispense(s) ==
  LET shortfall == QueueLen(s.queue) - PotentiallyAllocable(s)
      spare == SpareResourceCapacity(s)
  IN IF QueueLen(s.queue) < 1 \/ s.over THEN s
     ELSE Then(CreateResources(s, IF spare < shortfall THEN spare
                                  ELSE shortfall),
               TestOnBorrow)

\* Pool.release
Release(s, c) == Then(ReleaseToPool(s, c, s.held[c]), Dispense)

\* Pool.acquire: a ResourceRequest is queued and _dispense runs
Acquire(s, c, priority) ==
  Then([s EXCEPT !.queue = Enqueue(s.queue, c, priority),
                 !.pc[c] = "waiting", !.res[c] = "none"], Dispense)

(* --------------------- render pipeline (server.ts) --------------------- *)
\* How the promise of render(browser, options) can reject: browser.newPage()
\* rejects before the try block, or an await or throw inside it does
RenderErrors == {"error:newPage", "error:rendering page"}

\* What the promise of render(browser, options) can resolve with: the
\* buffer of page.pdf, which passes the test `if (pdf)` also when its
\* length is 0
Successes == {"pdf", "pdf:empty"}

\* (mutation of RenderSettled: no finally block, the browser is not released)
RenderSettledNoRelease(s, c, outcome) ==
  [s EXCEPT !.pc[c] = "done", !.res[c] = outcome, !.held[c] = 0]

\* (mutation of RenderSettled: a browser whose render timed out is destroyed
\* instead of released)
RenderSettledDiscard(s, c, outcome) ==
  LET d == [s EXCEPT !.pc[c] = "done", !.res[c] = outcome, !.held[c] = 0]
  IN IF outcome = "promise timed out"
     THEN Then(PoolDestroy(d, s.held[c]), Dispense)
     ELSE Then(ReleaseToPool(d, c, s.held[c]), Dispense)

\* createRenderer.render: catch (rethrow) and finally pool.release(browser)
RenderSettled(s, c, outcome) ==
  Release([s EXCEPT !.pc[c] = "done", !.res[c] = outcome], c)

\* (mutation of PipelineSettled: a pipeline that settles after the timer has
\* won the race still delivers its outcome)
PipelineSettledLate(s, c, outcome) ==
  LET e == [s EXCEPT !.pipe[c] = "none", !.pinst[c] = 0]
  IN IF s.pc[c] = "racing" THEN RenderSettled(e, c, outcome)
     ELSE [e EXCEPT !.res[c] = outcome]

\* (mutation of PipelineSettled: a pipeline that settles after the timer has
\* won the race releases its browser once more)
PipelineSettledReleaseAgain(s, c, outcome) ==
  LET e == [s EXCEPT !.pipe[c] = "none", !.pinst[c] = 0]
  IN IF s.pc[c] = "racing" THEN RenderSettled(e, c, outcome)
     ELSE IF s.st[s.pinst[c]] = "borrowed"
          THEN Then([e EXCEPT !.st[s.pinst[c]] = "idle",
                              !.avail = Append(@, s.pinst[c])], Dispense)
          ELSE e

\* the promise of render(browser, options) settles; the facade call is
\* still awaiting the race unless the timer has already won it
PipelineSettled(s, c, outcome) ==
  LET e == [s EXCEPT !.pipe[c] = "none", !.pinst[c] = 0]
  IN IF s.pc[c] = "racing" THEN RenderSettled(e, c, outcome) ELSE e

(* ------------------------------- Init ---------------------------------- *)
\* createPuppeteerPool has returned: autostart has called _ensureMinimum
Empty ==
  [st |-> [i \in Inst |-> "none"], pid |-> [i \in Inst |-> 0],
   proc |-> [i \in Inst |-> "none"],
   shouldRepair |-> [p \in Pids |-> "absent"],
   avail |-> <<>>, queue |-> [k \in 1..PriorityRange |-> <<>>],
   nxt |-> 1, fails |-> 0, crashes |-> 0,
   pc |-> [c \in Callers |-> "idle"], held |-> [c \in Callers |-> 0],
   res |-> [c \in Callers |-> "none"],
   pipe |-> [c \in Renders |-> "none"], pinst |-> [c \in Renders |-> 0],
   job |-> NoJob, at |-> "none", ran |-> <<>>, timer |-> "none",
   resp |-> "none",
   page |-> "none",
   evt |-> "none", down |-> FALSE,
   over |-> FALSE]

Started == EnsureMinimum(Empty)

PoolStarted ==
  /\ st = Started.st /\ pid = Started.pid /\ proc = Started.proc
  /\ shouldRepair = Started.shouldRepair
  /\ avail = Started.avail /\ queue = Started.queue /\ nxt = Started.nxt
  /\ fails = Started.fails /\ crashes = Started.crashes
  /\ pc = Started.pc /\ held = Started.held /\ res = Started.res
  /\ pipe = Started.pipe /\ pinst = Started.pinst
  /\ job = Started.job /\ at = Started.at /\ ran = Started.ran
  /\ timer = Started.timer /\ resp = Started.resp /\ page = Started.page /\ evt = Started.evt
  /\ down = Started.down

\* An object without properties
NoOptions == [k \in {} |-> k]

\* No request body has arrived and no call's arguments are followed
NoCall == body = NoOptions /\ options = NoOptions /\ timeoutMs = -1

\* launch({poolOptions: {min, max}}) with min < max
Init == minOpt = PoolMin /\ rev = "server.ts" /\ PoolStarted /\ NoCall

\* launch({poolOptions: {min, max}}) with min = max
InitFull == minOpt = MaxSize /\ rev = "server.ts" /\ PoolStarted /\ NoCall

\* launch of src/src/lib/pdf.ts
InitLib == minOpt = PoolMin /\ rev = "lib/pdf.ts" /\ PoolStarted /\ NoCall

(* ------------------------------ actions -------------------------------- *)
\* the pids a new process can get: one never used before, or the pid of a
\* process that has exited
UsedPids == {pid[j] : j \in {k \in Inst : proc[k] # "none"}}
FreePids ==
  {p \in Pids : \/ p \in UsedPids /\ \A j \in Inst : proc[j] = "run" => pid[j] # p
                \/ p \notin UsedPids /\ \A q \in 1..(p - 1) : q \in UsedPids}

\* puppeteer.launch resolves in factory.create: the pid is recorded healthy,
\* the 'disconnected' listener is registered, the pool adds the browser
CreateDone(i, p) ==
  /\ st[i] = "creating"
  /\ p \in FreePids
  /\ Becomes(Then([Cur EXCEPT !.st[i] = "idle", !.pid[i] = p,
                              !.proc[i] = "run",
                              !.shouldRepair[p] = "false",
                              !.avail = Append(@, i)], Dispense))

\* puppeteer.launch rejects: factory.create rethrows, the pool dispenses again
CreateFail(i) ==
  /\ st[i] = "creating"
  /\ fails < MaxCreateFails
  /\ Becomes(Then([Cur EXCEPT !.st[i] = "failed", !.fails = @ + 1], Dispense))

\* a pooled browser's process exits on its own
BrowserCrash(i) ==
  /\ proc[i] = "run"
  /\ st[i] \in {"idle", "borrowed"}
  /\ crashes < MaxCrashes
  /\ Becomes([Cur EXCEPT !.proc[i] = "exited", !.crashes = @ + 1])

\* browser.close() of factory.destroy completes: the process has exited
BrowserClosed(i) ==
  /\ proc[i] = "run"
  /\ st[i] = "destroyed"
  /\ Becomes([Cur EXCEPT !.proc[i] = "exited"])

\* the 'disconnected' listener of factory.create runs (once)
Disconnected(i) ==
  /\ proc[i] = "exited"
  /\ Becomes([Cur EXCEPT !.proc[i] = "notified",
                         !.shouldRepair[pid[i]] = "true"])

\* renderer.render(options) is called
RenderStart(c) ==
  /\ c \in Renders
  /\ pc[c] \in {"idle", "done"}
  /\ pipe[c] = "none"
  /\ Becomes(Acquire(Cur, c, LOW_PRIORITY))

\* renderer.isHealthy() is called
ProbeStart(c) ==
  /\ c \in Probes
  /\ pc[c] \in {"idle", "done"}
  /\ Becomes(Acquire(Cur, c, HIGH_PRIORITY))

\* the ResourceRequest's acquireTimeoutMillis timer fires: acquire rejects;
\* render propagates the error, isHealthy returns false
AcquireTimeout(c) ==
  /\ pc[c] = "waiting"
  /\ Becomes([Cur EXCEPT !.queue = RemoveRequest(queue, c),
                         !.pc[c] = "done",
                         !.res[c] = IF c \in Renders THEN "AcquireTimeout"
                                    ELSE "false"])

\* render(browser, options) returns the pdf buffer
PipelineResolve(c) ==
  /\ c \in Renders
  /\ pipe[c] = "running"
  /\ Becomes(PipelineSettled(Cur, c, "pdf"))

\* render(browser, options) throws
PipelineReject(c, e) ==
  /\ c \in Renders
  /\ pipe[c] = "running"
  /\ Becomes(PipelineSettled(Cur, c, e))

\* the timer of timeout(promise, timeoutMs) fires before the pipeline
\* settles: the race rejects with "promise timed out"
TimerFire(c) ==
  /\ c \in Renders
  /\ pc[c] = "racing"
  /\ Becomes(RenderSettled(Cur, c, "promise timed out"))

Next ==
  \/ \E i \in Inst, p \in Pids : CreateDone(i, p)
  \/ \E i \in Inst : CreateFail(i)
  \/ \E i \in Inst : BrowserCrash(i)
  \/ \E i \in Inst : BrowserClosed(i)
  \/ \E i \in Inst : Disconnected(i)
  \/ \E c \in Renders : RenderStart(c)
  \/ \E c \in Probes : ProbeStart(c)
  \/ \E c \in Callers : AcquireTimeout(c)
  \/ \E c \in Renders : PipelineResolve(c)
  \/ \E c \in Renders, e \in RenderErrors : PipelineReject(c, e)
  \/ \E c \in Renders : TimerFire(c)

Spec == Init /\ [][Next]_vars

\* the same program started with min = max
SpecFull == InitFull /\ [][Next]_vars

(* ------------------- the revision of src/src/lib/pdf.ts ---------------- *)
\* pool.use(fn) is called without a priority: PriorityQueue.enqueue turns
\* the undefined priority into 0
NoPriority == 0

\* Pool.destroy for a borrowed object: the loan ends, _destroy, _dispense
DestroyBorrowed(s, c) ==
  Then(PoolDestroy([s EXCEPT !.held[c] = 0], s.held[c]), Dispense)

\* Pool.use after fn(resource) has settled: the object is released when fn
\* resolved; when fn rejected it is released or destroyed, as the installed
\* generic-pool does, and the error is rethrown
UseSettled(s, c, outcome, onError) ==
  LET d == [s EXCEPT !.pc[c] = "done", !.res[c] = outcome,
                     !.pipe[c] = "none", !.pinst[c] = 0]
  IN IF outcome \in Successes \/ onError = "release"
     THEN Release(d, c) ELSE DestroyBorrowed(d, c)

\* renderer.render(options, log): pool.use(browser => render(browser, ...))
LibRenderStart(c) ==
  /\ c \in Renders
  /\ pc[c] \in {"idle", "done"}
  /\ Becomes(Acquire(Cur, c, NoPriority))

\* renderer.isHealthy(log): pool.use(async () => true)
LibProbeStart(c) ==
  /\ c \in Probes
  /\ pc[c] \in {"idle", "done"}
  /\ Becomes(Acquire(Cur, c, NoPriority))

\* render(browser, options, log) returns the pdf buffer
LibPipelineResolve(c) ==
  /\ c \in Renders
  /\ pipe[c] = "running"
  /\ Becomes(UseSettled(Cur, c, "pdf", "release"))

\* render(browser, options, log) throws
LibPipelineReject(c, e, onError) ==
  /\ c \in Renders
  /\ pipe[c] = "running"
  /\ Becomes(UseSettled(Cur, c, e, onError))

NextLib ==
  \/ \E i \in Inst, p \in Pids : CreateDone(i, p)
  \/ \E i \in Inst : CreateFail(i)
  \/ \E i \in Inst : BrowserCrash(i)
  \/ \E i \in Inst : BrowserClosed(i)
  \/ \E i \in Inst : Disconnected(i)
  \/ \E c \in Renders : LibRenderStart(c)
  \/ \E c \in Probes : LibProbeStart(c)
  \/ \E c \in Renders : LibPipelineResolve(c)
  \/ \E c \in Renders, e \in RenderErrors, onError \in {"release", "destroy"} :
       LibPipelineReject(c, e, onError)

SpecLib == InitLib /\ [][NextLib]_vars

(* ------------------------------ fairness ------------------------------- *)
\* What the event loop and the browser guarantee: a launch settles
\* (puppeteer.launch has its own timeout), a closed browser exits, a
\* pending 'disconnected' event is delivered, a timer that is set fires.
\* Nothing guarantees that a render pipeline settles or that a caller calls.
EnvFairness ==
  /\ \A i \in Inst : WF_vars((\E p \in Pids : CreateDone(i, p)) \/ CreateFail(i))
  /\ \A i \in Inst : WF_vars(BrowserClosed(i))
  /\ \A i \in Inst : WF_vars(Disconnected(i))

SpecFair ==
  /\ Spec
  /\ EnvFairness
  /\ \A c \in Callers : WF_vars(AcquireTimeout(c))
  /\ \A c \in Renders : WF_vars(TimerFire(c))

\* The pdf.ts revision in the runs where no launch fails and no browser
\* crashes: these are behaviours of SpecLib, and fair ones, since the
\* actions left out are never taken in them.
NextLibNoFault ==
  \/ \E i \in Inst, p \in Pids : CreateDone(i, p)
  \/ \E i \in Inst : BrowserClosed(i)
  \/ \E i \in Inst : Disconnected(i)
  \/ \E c \in Renders : LibRenderStart(c)
  \/ \E c \in Probes : LibProbeStart(c)
  \/ \E c \in Renders : LibPipelineResolve(c)
  \/ \E c \in Renders, e \in RenderErrors, onError \in {"release", "destroy"} :
       LibPipelineReject(c, e, onError)

SpecLibFair == InitLib /\ [][NextLibNoFault]_vars /\ EnvFairness

(* --------------- render(browser, options), step by step ---------------- *)
\* The revisions of the render function and its facade in the repository:
\* src/src/server.ts, src/src/lib/pdf.ts, src/unnamed/part_000 and
\* src/unnamed/part_001
Revisions == {"server.ts", "lib/pdf.ts", "part_000", "part_001"}
\* the render call that is followed step by step: the first caller
Followed == CHOOSE c \in Renders : \A d \in Renders : c <= d

\* the RenderOptions a call can carry in revision r: url and html are both
\* optional in server.ts, a tagged union in pdf.ts and part_000, and
\* part_001 has url only; only pdf.ts fits the height to the content
Jobs(r) ==
  {j \in [src : {"url", "html", "none"}, selector : BOOLEAN, xpath : BOOLEAN,
          media : BOOLEAN, fit : BOOLEAN] :
     /\ j.src = "none" => r = "server.ts"
     /\ j.src = "html" => r # "part_001"
     /\ j.fit => r = "lib/pdf.ts"}

\* the puppeteer calls render awaits, in the order of the source text
Order(r) ==
  IF r = "lib/pdf.ts"
  THEN <<"newPage", "goto", "setContent", "evaluate", "emulateMedia",
         "waitForSelector", "waitForXPath", "pdf">>
  ELSE <<"newPage", "goto", "setContent", "waitForSelector", "waitForXPath",
         "emulateMedia", "pdf">>

\* (mutation of Requested: the selector wait is never made)
RequestedNoSelectorWait(j, call) ==
  CASE call = "goto" -> j.src = "url"
    [] call = "setContent" -> j.src = "html"
    [] call = "evaluate" -> j.fit
    [] call = "emulateMedia" -> j.media
    [] call = "waitForSelector" -> FALSE
    [] call = "waitForXPath" -> j.xpath
    [] OTHER -> TRUE

\* the condition under which render makes the call
Requested(j, call) ==
  CASE call = "goto" -> j.src = "url"
    [] call = "setContent" -> j.src = "html"
    [] call = "evaluate" -> j.fit
    [] call = "emulateMedia" -> j.media
    [] call = "waitForSelector" -> j.selector
    [] call = "waitForXPath" -> j.xpath
    [] OTHER -> TRUE

Position(r, call) == CHOOSE k \in 1..Len(Order(r)) : Order(r)[k] = call

\* the first call after position k that the options request
RECURSIVE NextCall(_, _, _)
NextCall(r, j, k) ==
  IF k + 1 >= Len(Order(r)) \/ Requested(j, Order(r)[k + 1]) THEN k + 1
  ELSE NextCall(r, j, k + 1)

\* the awaited call has resolved and render goes on to its next call
Continue(s, call) ==
  Await(s, Order(rev)[NextCall(rev, s.job, Position(rev, call))])

\* the promise of render(browser, options) settles and the facade takes over:
\* pool.use in pdf.ts, the try / catch / finally of createRenderer.render
\* elsewhere
PipelineEnds(s, c, outcome, onError) ==
  LET e == [s EXCEPT !.at = "none"]
  IN IF rev = "lib/pdf.ts" THEN UseSettled(e, c, outcome, onError)
     ELSE PipelineSettled(e, c, outcome)

\* the message of the Error thrown for a response that is not ok
NotOk(status, text) ==
  "response was not ok. status " \o status \o " body " \o text

\* what the awaited call can resolve with
Results(call) ==
  CASE call = "goto" -> {"200", "404", "500", "null"}
    [] call = "text" -> {"not found"}
    [] call = "pdf" -> {"buffer", "empty", "null"}
    [] OTHER -> {"void"}

AllResults ==
  {"200", "404", "500", "null", "not found", "buffer", "empty", "void"}

\* render resumes after the awaited call resolved with v
Resolved(s, c, v, onError) ==
  CASE s.at = "newPage" ->
         LET o == [s EXCEPT !.page = "open"]
         IN IF s.job.src = "none"
            THEN PipelineEnds(o, c, "either url or html must be set",
                              onError)
            ELSE Continue(o, "newPage")
    [] s.at = "goto" ->
         IF v = "null"
         THEN IF rev = "part_001" THEN Continue(s, "goto")
              ELSE PipelineEnds(s, c, "response was null, somehow", onError)
         ELSE IF v = "200" THEN Continue([s EXCEPT !.resp = v], "goto")
         ELSE Await([s EXCEPT !.resp = v], "text")
    [] s.at = "text" -> PipelineEnds(s, c, NotOk(s.resp, v), onError)
    [] s.at = "pdf" ->
         LET p == IF rev = "part_001" THEN s ELSE [s EXCEPT !.page = "closed"]
         IN IF v = "buffer" THEN PipelineEnds(p, c, "pdf", onError)
            ELSE IF v = "empty" THEN PipelineEnds(p, c, "pdf:empty", onError)
            ELSE PipelineEnds(p, c, "pdf response was null or undefined",
                              onError)
    [] OTHER -> Continue(s, s.at)

\* (mutation of Rejected: a call that rejected is made once more)
RejectedRetry(s, c, onError) ==
  IF Cardinality({k \in DOMAIN s.ran : s.ran[k] = s.at}) < 2
  THEN Await(s, s.at)
  ELSE PipelineEnds(s, c, "error:" \o s.at, onError)

\* render resumes after the awaited call rejected: response.text() is in a
\* try of its own, every other rejection leaves render through its catch
Rejected(s, c, onError) ==
  IF s.at = "text" THEN PipelineEnds(s, c, NotOk(s.resp, ""), onError)
  ELSE PipelineEnds(s, c, "error:" \o s.at, onError)

\* renderer.render(options) is called with the options j
StepRenderStart(c, j) ==
  /\ c = Followed
  /\ pc[c] \in {"idle", "done"}
  /\ pipe[c] = "none"
  /\ timer = "none"
  /\ Becomes(Acquire([Cur EXCEPT !.job = j, !.at = "none", !.ran = <<>>,
                                 !.resp = "none",
                                 !.page = IF page = "none" THEN "none"
                                          ELSE "earlier",
                                 !.evt = "none"],
                     c, IF rev = "lib/pdf.ts" THEN NoPriority ELSE LOW_PRIORITY))

\* the call render awaits resolves
CallResolves(c, v, onError) ==
  /\ c = Followed
  /\ pipe[c] = "running"
  /\ at # "none"
  /\ v \in Results(at)
  /\ Becomes(Resolved(Cur, c, v, onError))

\* the call render awaits rejects
CallRejects(c, onError) ==
  /\ c = Followed
  /\ pipe[c] = "running"
  /\ at # "none"
  /\ Becomes(Rejected(Cur, c, onError))

\* the page emits 'error' or 'requestfailed': the listener registered by
\* render with page.on (it stays registered, also after page.close() and
\* on the page an earlier call left behind) logs and throws.  The throw goes to the emitter's caller inside
\* puppeteer, not to render: it ends as an unhandled rejection that node
\* only warns about, or as an uncaught exception that ends the process.
PageEvent(c, kind, fate) ==
  /\ c = Followed
  /\ page # "none"
  /\ Becomes([Cur EXCEPT !.evt = kind,
                         !.down = (fate = "uncaught exception")])

\* the timer of timeout(promise, timeoutMs) fires: timeoutPromise rejects,
\* which decides the race unless the pipeline has settled before (the
\* timer is not cleared when the pipeline wins)
StepTimerFire(c) ==
  /\ c = Followed
  /\ timer = "set"
  /\ LET t == [Cur EXCEPT !.timer = "none"]
     IN Becomes(IF pc[c] = "racing" THEN RenderSettled(t, c, "promise timed out")
                ELSE t)

\* the node process is running
Up == ~down

\* the ResourceRequest's acquireTimeoutMillis timer fires in a revision
\* whose pool options set acquireTimeoutMillis
StepAcquireTimeout(c) ==
  /\ rev \in AcquireTimeoutRevisions
  /\ AcquireTimeout(c)

\* what Pool.use may do with the browser when fn rejected; the revisions
\* that call acquire and release themselves always release
OnErrors == IF rev = "lib/pdf.ts" THEN {"release", "destroy"} ELSE {"release"}

NextSteps ==
  \/ \E i \in Inst, p \in Pids : Up /\ CreateDone(i, p)
  \/ \E i \in Inst : Up /\ CreateFail(i)
  \/ Up /\ StepAcquireTimeout(Followed)
  \/ \E i \in Inst : Up /\ BrowserClosed(i)
  \/ \E i \in Inst : Up /\ Disconnected(i)
  \/ \E j \in Jobs(rev) : Up /\ StepRenderStart(Followed, j)
  \/ \E v \in AllResults, onError \in OnErrors :
       Up /\ CallResolves(Followed, v, onError)
  \/ \E onError \in OnErrors : Up /\ CallRejects(Followed, onError)
  \/ \E kind \in {"error", "requestfailed"},
        fate \in {"unhandled rejection", "uncaught exception"} :
       Up /\ PageEvent(Followed, kind, fate)
  \/ Up /\ StepTimerFire(Followed)

\* one render call at a time, in any of the revisions
InitSteps == minOpt = PoolMin /\ rev \in Revisions /\ PoolStarted /\ NoCall

SpecSteps == InitSteps /\ [][NextSteps]_vars

(* ------------- createRenderer.render: the total timeout ---------------- *)
\* The pool and the callers, which the steps of this section leave alone
poolVars == <<minOpt, rev, st, pid, proc, shouldRepair, avail, queue, nxt,
              fails, crashes, pc, held, res, pipe, pinst, job, at, ran, timer,
              resp, page, evt, down>>

\* A JavaScript number used as a condition: 0 is falsy
TruthyNumber(n) == n # 0
\* A JavaScript string used as a condition: "" is falsy
TruthyString(s) == s # ""

\* the values of options.timeout that render is called with
Timeouts == 0..MaxTimeoutMs \cup {10000, defaultTimeoutMs, 60000}

\* the RenderOptions render is called with: timeout is an optional property
TimedOptions ==
  {[type |-> "url", url |-> "https://a"]}
    \cup {[type |-> "url", url |-> "https://a", timeout |-> n] : n \in Timeouts}

\* const timeoutMs = options.timeout ? options.timeout : <default>
TimeoutMs(r, o) ==
  IF "timeout" \in DOMAIN o /\ TruthyNumber(o.timeout) THEN o.timeout
  ELSE IF r = "part_001" THEN 10000 ELSE defaultTimeoutMs

\* render(options) has acquired its browser and computes the delay it passes
\* to timeout(render(browser, options), timeoutMs)
RenderTimeout ==
  /\ timeoutMs = -1
  /\ timeoutMs' = TimeoutMs(rev, options)
  /\ UNCHANGED <<poolVars, body, options>>

InitTimeout ==
  /\ minOpt = PoolMin /\ rev \in TimedRevisions /\ PoolStarted
  /\ body = NoOptions /\ options \in TimedOptions /\ timeoutMs = -1

NextTimeout == RenderTimeout

SpecTimeout == InitTimeout /\ [][NextTimeout]_vars

(* ------------- domain/pdf/request.ts: pdfBodyToRenderOptions ----------- *)
\* The values tried for each property of a request body.  A body is a
\* record that has some of these properties; a property that is undefined
\* is not in the record.
BodyValues ==
  [url |-> {"https://a"},
   html |-> {"<p>a</p>"},
   waitForNavigation |-> {"load"},
   waitForSelector |-> {"", "#a"},
   waitForXpath |-> {"", "//a"},
   headerTemplate |-> {"", "<b>h</b>"},
   footerTemplate |-> {"", "<i>f</i>"},
   format |-> {"A4"},
   mediaType |-> {"print"},
   margin |-> {[top |-> "1cm"]},
   defaultNavigationTimeout |-> {0, 5000},
   defaultTimeout |-> {0, 5000}]

\* S, and every record of S extended by properties named in ks
RECURSIVE Extended(_, _)
Extended(S, ks) ==
  IF ks = {} THEN S
  ELSE LET k == CHOOSE x \in ks : TRUE
       IN Extended(S \cup {(k :> v) @@ b : b \in S, v \in BodyValues[k]},
                   ks \ {k})

\* bodySchema: anyOf [{required: ["url"]}, {required: ["html"]}]
Validated(b) == "url" \in DOMAIN b \/ "html" \in DOMAIN b

\* the bodies that pass the validation of the route
Bodies == {b \in Extended({NoOptions}, DOMAIN BodyValues) : Validated(b)}

\* {[k]: v}, or nothing when v is undefined
Property(k, defined, v) == IF defined THEN k :> v ELSE NoOptions

\* (mutation of Given: the property is only tested for presence)
GivenPresent(b, k) == k \in DOMAIN b

\* b has the property k and its value is a truthy string
Given(b, k) == k \in DOMAIN b /\ TruthyString(b[k])

\* pdfBodyToRenderOptions(body); a property whose value is undefined is left
\* out of the record
pdfBodyToRenderOptions(b) ==
  LET Has(k) == k \in DOMAIN b
      Copy(k) == IF Has(k) THEN k :> b[k] ELSE NoOptions
      pdf ==
        Copy("format")
          @@ ("displayHeaderFooter" :>
                (Given(b, "headerTemplate") \/ Given(b, "footerTemplate")))
          @@ Copy("headerTemplate") @@ Copy("footerTemplate") @@ Copy("margin")
      shared ==
        Property("navigation", Given(b, "waitForNavigation"),
                 IF Has("waitForNavigation")
                 THEN [waitUntil |-> b.waitForNavigation] ELSE NoOptions)
          @@ Property("waitForXpath", Given(b, "waitForXpath"),
                      IF Has("waitForXpath")
                      THEN [xpath |-> b.waitForXpath] ELSE NoOptions)
          @@ Property("waitForSelector", Given(b, "waitForSelector"),
                      IF Has("waitForSelector")
                      THEN [selector |-> b.waitForSelector] ELSE NoOptions)
          @@ Copy("mediaType")
          @@ ("pdf" :> pdf)
          @@ ("defaultNavigationTimeout" :>
                IF Has("defaultNavigationTimeout")
                THEN b.defaultNavigationTimeout ELSE 60 * 1000)
          @@ ("defaultTimeout" :>
                IF Has("defaultTimeout") THEN b.defaultTimeout ELSE 60 * 1000)
  IN IF Has("url")
     THEN ("type" :> "url") @@ ("url" :> b.url) @@ shared
     ELSE ("type" :> "html") @@ ("html" :> b.html) @@ shared

\* the handler of the pdf route translates the validated body
Translate ==
  /\ options = NoOptions
  /\ options' = pdfBodyToRenderOptions(body)
  /\ UNCHANGED <<poolVars, body, timeoutMs>>

InitRequest ==
  /\ minOpt = PoolMin /\ rev = "lib/pdf.ts" /\ PoolStarted
  /\ body \in Bodies /\ options = NoOptions /\ timeoutMs = -1

NextRequest == Translate

SpecRequest == InitRequest /\ [][NextRequest]_vars

(* ------------------------------ claims --------------------------------- *)
LiveCount == Cardinality(Live(Cur))
BorrowedNow == Borrowed(Cur)
\* the first min browsers (the warm-up) have been launched
WarmedUp == \A i \in 1..MinSize : st[i] \notin {"none", "creating", "failed"}

\* C1: at most max browsers are borrowed at any time, and a browser a caller
\* holds (between its acquire and its release) is held by no other caller.
C1_ExclusiveBorrow ==
  /\ Cardinality(BorrowedNow) <= MaxSize
  /\ \A c \in Callers : held[c] # 0 => st[held[c]] = "borrowed"
  /\ \A c, d \in Callers : c # d /\ held[c] # 0 => held[c] # held[d]

\* C1 witness: the pool is saturated, every borrowed browser has its own
\* holder, and another render is waiting
C1_Witness ==
  /\ Cardinality(BorrowedNow) = MaxSize
  /\ \E c, d \in Renders : c # d /\ held[c] # 0 /\ held[d] # 0
  /\ \E w \in Renders : pc[w] = "waiting"

\* C2 (as claimed): with max browsers borrowed and both a render acquire and
\* an isHealthy acquire waiting, a step that grants a browser to the waiting
\* render leaves no isHealthy acquire waiting: the probe was served first.
C2_HighPriorityFirst ==
  [][\A r \in Renders, h \in Probes :
       (/\ Cardinality(BorrowedNow) = MaxSize
        /\ pc[r] = "waiting" /\ pc[h] = "waiting"
        /\ pc'[r] = "racing")
       => pc'[h] # "waiting"]_vars

\* C3 (as claimed): a browser whose 'disconnected' listener has run is never
\* afterwards handed to a render by acquire.
C3_DisconnectedNeverBorrowed ==
  [][\A i \in Inst :
       proc[i] = "notified" => ~(st[i] # "borrowed" /\ st'[i] = "borrowed")]_vars

\* C4: a render call that has ended, by success, by any failure of the
\* pipeline or by the total timeout, holds no browser, and every borrowed
\* browser is held by a render call that has not ended.
C4_ReleasedOnEveryExit ==
  /\ \A c \in Renders : pc[c] = "done" => held[c] = 0
  /\ \A i \in Inst : st[i] = "borrowed" =>
       \E c \in Renders : pc[c] = "racing" /\ held[c] = i

\* C4 witness: three render calls have ended, one by the timeout, one by a
\* failure to open the page and one with a pdf
C4_Witness ==
  \E a, b, c \in Renders :
    /\ pc[a] = "done" /\ res[a] = "promise timed out"
    /\ pc[b] = "done" /\ res[b] = "error:newPage"
    /\ pc[c] = "done" /\ res[c] = "pdf"

\* C5 (as claimed): no two render pipelines are running against the same
\* browser at the same time.
C5_OnePipelinePerBrowser ==
  \A c, d \in Renders :
    c # d /\ pipe[c] = "running" /\ pipe[d] = "running" => pinst[c] # pinst[d]

\* C6: when the timer fires while the pipeline is pending, the render call
\* ends at once with "promise timed out", the pipeline is left running, and
\* the browser is released: the caller no longer holds it, and unless it
\* fails the validation of the next borrow it is idle or lent to another
\* caller, not destroyed.
C6_TimeoutReleases ==
  [][\A c \in Renders :
       TimerFire(c) =>
         /\ pc'[c] = "done" /\ res'[c] = "promise timed out"
         /\ pipe'[c] = "running" /\ pinst'[c] = held[c]
         /\ held'[c] = 0
         /\ \A d \in Callers : held'[d] = held[c] => pc'[d] = "racing" /\ d # c
         /\ Validate(Cur, held[c]) => st'[held[c]] \in {"idle", "borrowed"}]_vars

\* C6 witness: a render call has ended with the timeout, its pipeline is
\* still running and its browser is idle in the pool
C6_Witness ==
  \E c \in Renders :
    /\ pc[c] = "done" /\ res[c] = "promise timed out"
    /\ pipe[c] = "running" /\ st[pinst[c]] = "idle"

\* C7: on every step that ends a call of isHealthy (the call itself, when
\* a browser is granted at once, or the step that ends its wait in the
\* queue) isHealthy ends with true or false and never throws; it is false
\* exactly when its acquire timed out, true when a browser was granted, in
\* particular when the call was granted one at once; and when it has ended
\* it holds no browser and has left none borrowed.
C7_ProbeResult ==
  [][\A h \in Probes :
       ((ProbeStart(h) \/ pc[h] = "waiting") /\ pc'[h] = "done") =>
         /\ res'[h] \in {"true", "false"}
         /\ (res'[h] = "false") <=> AcquireTimeout(h)
         /\ ProbeStart(h) => res'[h] = "true"
         /\ held'[h] = 0
         /\ \A i \in Inst : st'[i] = "borrowed" =>
              \E r \in Renders : held'[r] = i]_vars

\* C7 witness: isHealthy has returned true while a render holds one browser
\* and the browser the probe was granted is idle again
C7_Witness ==
  \E h \in Probes :
    /\ pc[h] = "done" /\ res[h] = "true"
    /\ \E r \in Renders : held[r] # 0
    /\ avail # <<>>

\* C8 (as claimed): every acquire ends: a caller that waits for a browser
\* eventually stops waiting (it is granted one or its acquire times out).
C8_AcquireTerminates ==
  \A c \in Callers : (pc[c] = "waiting") ~> (pc[c] # "waiting")

\* C9: the number of live browsers (being created, idle, borrowed, or
\* unhealthy and not yet destroyed) is between min and max from the start of
\* the warm-up on, and every acquire, release, disconnect and destroy keeps
\* it there: a step that starts with the number between min and max ends
\* with it between min and max, unless the step is a launch that fails.
C9_SizeWithinMinMax ==
  /\ MinSize <= LiveCount /\ LiveCount <= MaxSize
  /\ [][(/\ MinSize <= LiveCount /\ LiveCount <= MaxSize
          /\ ~ \E i \in Inst : CreateFail(i))
           => MinSize <= LiveCount' /\ LiveCount' <= MaxSize]_vars

\* C9 witness: after the warm-up a browser has disconnected and has been
\* destroyed, no launch has failed, the pool is at max with a browser
\* borrowed and a caller waiting in the queue
C9_Witness ==
  /\ WarmedUp /\ fails = 0
  /\ \E i \in Inst : st[i] = "destroyed" /\ proc[i] = "notified"
  /\ \E i \in Inst : st[i] = "borrowed"
  /\ \E c \in Callers : pc[c] = "waiting"
  /\ LiveCount = MaxSize

\* C10: a step that destroys a browser leaves at least min live browsers,
\* counting the replacements whose creation the pool has started.
C10_DestroyRefills ==
  [][(\E i \in Inst : st[i] # "destroyed" /\ st'[i] = "destroyed")
       => LiveCount' >= MinSize]_vars

\* C10 witness: a browser has been destroyed after failing validation while
\* another was available for the waiting caller, and the replacement that
\* restores min is being created with nobody waiting for it
C10_Witness ==
  /\ \E i \in Inst : st[i] = "destroyed" /\ proc[i] = "notified"
  /\ \E j \in Inst : st[j] = "creating"
  /\ \E k \in Inst : st[k] = "borrowed"
  /\ QueueLen(queue) = 0
  /\ LiveCount = MinSize

\* C11 (as claimed): as long as no browser process has exited on its own,
\* the shouldRepair entry of a destroyed browser's pid is never true: the
\* close made by factory.destroy does not mark it, and what destroy deleted
\* stays deleted (or belongs, reset to false, to a later browser that was
\* given the same pid).
C11_DestroyNeverMarksUnhealthy ==
  crashes = 0 =>
    \A i \in Inst : st[i] = "destroyed" => shouldRepair[pid[i]] # "true"

\* C12 (as claimed): when the page emits 'error' or 'requestfailed' while the
\* render call is in flight and a pipeline call is awaited, that same event
\* ends the pipeline and the render call fails, with an error and no pdf.
C12_PageErrorAborts ==
  [][(/\ \E kind \in {"error", "requestfailed"},
            fate \in {"unhandled rejection", "uncaught exception"} :
           PageEvent(Followed, kind, fate)
      /\ page = "open"
      /\ at # "none" /\ pc[Followed] = "racing")
     => (/\ at' = "none" /\ pc'[Followed] = "done"
         /\ res'[Followed] \notin {"none", "pdf"})]_vars

\* C13 (as claimed): in a render call that is in flight, when page.goto
\* resolves with no response the call fails with the null-response error;
\* when it resolves with a status that is not 2xx the response body is read
\* and the call fails with an error carrying that status and that body; in
\* both cases the pipeline makes no wait, media or pdf call afterwards.
C13_NavigationFailure ==
  [][pc[Followed] = "racing" =>
       /\ (\E o \in {"release", "destroy"} : CallResolves(Followed, "null", o))
            => (/\ at = "goto" /\ at' = "none" /\ ran' = ran
                /\ res'[Followed] = "response was null, somehow")
       /\ \A v \in {"404", "500"} :
            (\E o \in {"release", "destroy"} : CallResolves(Followed, v, o))
              => (at' = "text" /\ resp' = v /\ res'[Followed] = "none")
       /\ (\E o \in {"release", "destroy"} :
             CallResolves(Followed, "not found", o))
            => (/\ at' = "none" /\ ran' = ran
                /\ res'[Followed] = NotOk(resp, "not found"))]_vars

\* C14 (as claimed): when the launch of one of the first min browsers (the
\* warm-up) has failed, the renderer that launch returned is not usable: no
\* render call has returned a pdf and no isHealthy call has returned true.
C14_WarmupFailureFatal ==
  (\E i \in 1..MinSize : st[i] = "failed")
    => \A c \in Callers : res[c] \notin {"pdf", "true"}

\* C15: a render call that has ended has a result, and the result does not
\* change while the call stays ended: neither the pipeline settling after
\* the timeout nor the timer firing after the pipeline alters it.
C15_ExactlyOneResult ==
  [][/\ pc'[Followed] = "done" => res'[Followed] # "none"
     /\ (pc[Followed] = "done" /\ pc'[Followed] = "done")
          => res'[Followed] = res[Followed]]_vars

\* C15 witness: the call ended with the timeout, and afterwards its pipeline
\* ran on to page.pdf and settled
C15_Witness ==
  /\ pc[Followed] = "done" /\ res[Followed] = "promise timed out"
  /\ pipe[Followed] = "none" /\ at = "none"
  /\ ran # <<>> /\ ran[Len(ran)] = "pdf" /\ page = "closed"

\* C16: when a call of the pipeline rejects while the render call is in
\* flight, the render call ends at once with that rejection as its result,
\* the pipeline makes no further call, and the caller is not queued for a
\* browser again; and whenever the pipeline makes a call, it is one it has
\* not made before in this render.  (A rejection of response.text() is
\* caught inside LoadSource, which then fails with the not-ok error.)
C16_FailureEndsPipeline ==
  [][/\ (/\ \E o \in {"release", "destroy"} : CallRejects(Followed, o)
         /\ pc[Followed] = "racing" /\ at # "text")
        => (/\ res'[Followed] = "error:" \o at
            /\ pc'[Followed] = "done" /\ held'[Followed] = 0
            /\ at' = "none" /\ ran' = ran /\ pipe'[Followed] = "none"
            /\ \A k \in DOMAIN queue' : \A n \in DOMAIN queue'[k] :
                 queue'[k][n] # Followed)
     /\ (ran' # ran /\ pipe[Followed] = "running")
        => (/\ ran' = Append(ran, at')
            /\ \A k \in DOMAIN ran : ran[k] # at')]_vars

\* C16 witness: waitForSelector rejected in a render that also asked for an
\* XPath wait and a media type; the call ended with that rejection and
\* neither of the later calls was made
C16_Witness ==
  /\ pc[Followed] = "done" /\ res[Followed] = "error:waitForSelector"
  /\ job.xpath /\ job.media /\ job.src = "url"
  /\ ran = <<"newPage", "goto", "waitForSelector">>
  /\ at = "none"

\* C17 (as claimed): while an isHealthy acquire is waiting, a browser that a
\* render releases (and that passes validation) goes to the probe, however
\* many render acquires are queued: after the releasing step the probe is
\* no longer waiting.
C17_ProbeNotStarved ==
  [][\A h \in Probes, r \in Renders :
       (/\ pc[h] = "waiting"
        /\ held[r] # 0 /\ held'[r] = 0
        /\ Validate(Cur, held[r]))
       => pc'[h] # "waiting"]_vars

\* the pooled browsers that are not marked: factory.validate would pass them
HealthyPooled ==
  {i \in Inst : st[i] \in {"idle", "borrowed"} /\ shouldRepair[pid[i]] # "true"}

\* C18: an isHealthy call that ends while the pool holds no browser that
\* passes validation (all are marked, or destroyed and not yet replaced)
\* returns false, so true is returned only once a healthy browser is in the
\* pool; and a call made when a healthy browser is idle at the head of the
\* pool, with nobody waiting, returns true at once.
C18_FalseUntilHealed ==
  [][\A h \in Probes :
       /\ (pc[h] # "done" /\ pc'[h] = "done" /\ HealthyPooled' = {})
            => res'[h] = "false"
       /\ (/\ ProbeStart(h) /\ QueueLen(queue) = 0 /\ avail # <<>>
           /\ Head(avail) \in HealthyPooled)
            => (pc'[h] = "done" /\ res'[h] = "true")]_vars

\* C18 witness: the only browser was marked and has been destroyed by the
\* probe's borrow, its replacement is still being launched, and isHealthy
\* has returned false
C18_Witness ==
  \E h \in Probes :
    /\ pc[h] = "done" /\ res[h] = "false"
    /\ HealthyPooled = {}
    /\ \E i \in Inst : st[i] = "destroyed" /\ proc[i] = "notified"
    /\ \E j \in Inst : st[j] = "creating"

\* the step of the claimed pipeline a call belongs to: OpenPage 1,
\* LoadSource 2, ApplyMediaMode 3, AwaitConditions 4, CapturePdf 5
ClaimedStep(call) ==
  CASE call = "newPage" -> 1
    [] call \in {"goto", "text", "setContent", "evaluate"} -> 2
    [] call = "emulateMedia" -> 3
    [] call \in {"waitForSelector", "waitForXPath"} -> 4
    [] OTHER -> 5

\* C19 (as claimed): in the render functions of server.ts, pdf.ts and
\* part_000 the calls of one render are made in the order OpenPage,
\* LoadSource, ApplyMediaMode, AwaitConditions, CapturePdf: no call is made
\* after a call of a later step; in particular the media type is set before
\* the selector and XPath waits.
C19_StepOrder ==
  rev # "part_001" =>
    \A k \in DOMAIN ran : \A n \in DOMAIN ran :
      k < n => ClaimedStep(ran[k]) <= ClaimedStep(ran[n])

\* the calls that wait for a condition to appear in the page
Waits == {"waitForSelector", "waitForXPath"}
\* the waits the options of the followed render ask for
WaitsAsked ==
  {w \in Waits : (w = "waitForSelector" /\ job.selector)
                   \/ (w = "waitForXPath" /\ job.xpath)}
\* the calls made so far
Made == {ran[k] : k \in DOMAIN ran}

\* C20 (as claimed): page.pdf is called only after every wait the job asks
\* for has been made and has resolved; and a render call that ends while a
\* wait is pending (the condition has not appeared) ends with that wait's
\* own timeout error.
C20_WaitConditionTimeout ==
  [][/\ (pipe[Followed] = "running" /\ at # "pdf" /\ at' = "pdf")
        => (/\ WaitsAsked \subseteq Made
            /\ \E v \in AllResults, o \in {"release", "destroy"} :
                 CallResolves(Followed, v, o))
     /\ (at \in Waits /\ pc[Followed] = "racing" /\ pc'[Followed] = "done")
        => res'[Followed] = "error:" \o at]_vars

\* C20 (amended): page.pdf is called only after every wait the job asks for
\* has been made and has resolved; a render call that ends while a wait is
\* pending ends with a failure, which is that wait's own timeout error or
\* the timeout of the total deadline; and a wait that rejects ends the
\* pipeline without a page.pdf call.
C20_WaitOrFail ==
  [][/\ (pipe[Followed] = "running" /\ at # "pdf" /\ at' = "pdf")
        => (/\ WaitsAsked \subseteq Made
            /\ \E v \in AllResults, o \in {"release", "destroy"} :
                 CallResolves(Followed, v, o))
     /\ (at \in Waits /\ pc[Followed] = "racing" /\ pc'[Followed] = "done")
        => res'[Followed] \in {"error:" \o at, "promise timed out"}
     /\ (at \in Waits /\ \E o \in {"release", "destroy"} : CallRejects(Followed, o))
        => (at' = "none" /\ ran' = ran /\ "pdf" \notin Made)]_vars

\* C20 witness: the selector appeared, the XPath condition did not, and
\* the render ended with the XPath wait's error without a page.pdf call
C20_Witness ==
  /\ job.selector /\ job.xpath
  /\ pc[Followed] = "done" /\ res[Followed] = "error:waitForXPath"
  /\ "waitForSelector" \in Made /\ "pdf" \notin Made /\ at = "none"

\* C21 (as claimed): when page.pdf resolves with an empty buffer or with
\* nothing while the render call is in flight, the call fails with the
\* capture error; it does not return.
C21_CaptureFailure ==
  [][(rev \in {"server.ts", "lib/pdf.ts"} /\ pc[Followed] = "racing"
        /\ at = "pdf") =>
       \A v \in {"empty", "null"} :
         (\E o \in {"release", "destroy"} : CallResolves(Followed, v, o))
           => (/\ pc'[Followed] = "done"
               /\ res'[Followed] = "pdf response was null or undefined")]_vars

\* C22 (as claimed): the delay render passes to timeout() is options.timeout
\* whenever the options carry one, whatever its value, and 25000 ms when
\* they carry none.
C22_TotalDeadline ==
  timeoutMs # -1 =>
    timeoutMs = IF "timeout" \in DOMAIN options THEN options.timeout
                ELSE 25000

\* C23 (as claimed): the RenderOptions made from a body have type url and
\* the body's url, and no html, when the body has a url; type html and the
\* body's html, and no url, when it has only html; their two timeouts are
\* the body's when it gives them, and 60000 ms otherwise; and
\* pdf.displayHeaderFooter is true exactly when the body has a
\* headerTemplate or a footerTemplate.
C23_RequestTranslation ==
  options # NoOptions =>
    /\ "url" \in DOMAIN body =>
         (/\ options.type = "url" /\ options.url = body.url
          /\ "html" \notin DOMAIN options)
    /\ "url" \notin DOMAIN body =>
         (/\ options.type = "html" /\ options.html = body.html
          /\ "url" \notin DOMAIN options)
    /\ options.defaultNavigationTimeout =
         IF "defaultNavigationTimeout" \in DOMAIN body
         THEN body.defaultNavigationTimeout ELSE 60000
    /\ options.defaultTimeout =
         IF "defaultTimeout" \in DOMAIN body
         THEN body.defaultTimeout ELSE 60000
    /\ options.pdf.displayHeaderFooter
         <=> ("headerTemplate" \in DOMAIN body
                \/ "footerTemplate" \in DOMAIN body)

\* C23 (amended): as claimed for the source and the timeouts; and
\* pdf.displayHeaderFooter is true exactly when the body has a
\* headerTemplate or a footerTemplate that is not the empty string.
C23_Translation ==
  options # NoOptions =>
    /\ "url" \in DOMAIN body =>
         (/\ options.type = "url" /\ options.url = body.url
          /\ "html" \notin DOMAIN options)
    /\ "url" \notin DOMAIN body =>
         (/\ options.type = "html" /\ options.html = body.html
          /\ "url" \notin DOMAIN options)
    /\ options.defaultNavigationTimeout =
         IF "defaultNavigationTimeout" \in DOMAIN body
         THEN body.defaultNavigationTimeout ELSE 60000
    /\ options.defaultTimeout =
         IF "defaultTimeout" \in DOMAIN body
         THEN body.defaultTimeout ELSE 60000
    /\ options.pdf.displayHeaderFooter
         <=> \E k \in {"headerTemplate", "footerTemplate"} :
               k \in DOMAIN body /\ body[k] # ""

\* C23 witness: a body with url and html, an empty headerTemplate, no
\* footerTemplate, defaultTimeout 0 and no defaultNavigationTimeout has been
\* translated to options of type url with header and footer display off,
\* defaultTimeout 0 and defaultNavigationTimeout 60000
C23_Witness ==
  /\ options # NoOptions
  /\ {"url", "html", "headerTemplate", "defaultTimeout"} \subseteq DOMAIN body
  /\ "footerTemplate" \notin DOMAIN body
  /\ "defaultNavigationTimeout" \notin DOMAIN body
  /\ body.headerTemplate = "" /\ body.defaultTimeout = 0
  /\ options.type = "url" /\ ~options.pdf.displayHeaderFooter
  /\ options.defaultTimeout = 0 /\ options.defaultNavigationTimeout = 60000

\* the browsers whose launch is in progress
Creating == {i \in Inst : st[i] = "creating"}

\* C24 (as claimed): a render call made while fewer than max browsers are
\* borrowed gets an idle browser at once or waits only for a browser that is
\* being launched for it (after the call, every waiting caller has a launch
\* in progress); a render call made while max browsers are borrowed waits.
C24_ParallelUpToMax ==
  [][\A c \in Renders :
       RenderStart(c) =>
         /\ Cardinality(BorrowedNow) < MaxSize
              => \/ pc'[c] = "racing"
                 \/ /\ pc'[c] = "waiting"
                    /\ Cardinality(Creating') >= QueueLen(queue')
         /\ Cardinality(BorrowedNow) = MaxSize => pc'[c] = "waiting"]_vars

\* C24 (amended): a render call made while the browsers borrowed and the
\* callers already waiting are together fewer than max gets an idle browser
\* at once or waits only for a browser that is being launched for it; a
\* render call made while max browsers are borrowed, or while the browsers
\* borrowed and the callers already waiting are together max or more, waits.
C24_ParallelUpToCapacity ==
  [][\A c \in Renders :
       RenderStart(c) =>
         /\ Cardinality(BorrowedNow) + QueueLen(queue) < MaxSize
              => \/ pc'[c] = "racing"
                 \/ /\ pc'[c] = "waiting"
                    /\ Cardinality(Creating') >= QueueLen(queue')
         /\ Cardinality(BorrowedNow) + QueueLen(queue) >= MaxSize
              => pc'[c] = "waiting"]_vars

\* C24 witness: max renders are in their pipelines at the same time, each
\* on its own browser, the last of them launched on demand, and a further
\* render call is queued
C24_Witness ==
  /\ Cardinality({r \in Renders : pc[r] = "racing" /\ pipe[r] = "running"})
       = MaxSize
  /\ \A r, q \in Renders :
       r # q /\ pc[r] = "racing" /\ pc[q] = "racing" => held[r] # held[q]
  /\ \E r \in Renders : pc[r] = "racing" /\ held[r] > MinSize
  /\ \E w \in Renders : pc[w] = "waiting"

\* C25 (as claimed): when the 'disconnected' listener of one browser runs,
\* the shouldRepair entry of every other pooled browser whose process is
\* running stays as it was, also when that browser was given the pid the
\* disconnected browser had.
C25_DisconnectMarksOnlyItsOwn ==
  [][\A i \in Inst :
       Disconnected(i) =>
         \A j \in Inst \ {i} :
           (st[j] \in {"idle", "borrowed"} /\ proc[j] = "run")
             => shouldRepair'[pid[j]] = shouldRepair[pid[j]]]_vars

\* C26: a borrow is released exactly once.  A call whose acquire times out
\* releases nothing: the pool's browsers, its available list and what every
\* caller holds are unchanged, and a render ends with the acquire error.  A
\* render call that ends after a grant gives up the browser it borrowed in
\* that step.  A pipeline that settles after its call has ended (the timer
\* won the race) releases nothing.  And no step puts a browser into the
\* available list twice or while a caller holds it.
C26_ReleaseOnce ==
  [][/\ \A c \in Callers :
          AcquireTimeout(c) =>
            /\ st' = st /\ avail' = avail /\ held' = held
            /\ c \in Renders => res'[c] = "AcquireTimeout"
     /\ \A c \in Renders :
          /\ (pc[c] = "racing" /\ pc'[c] = "done")
               => (/\ held[c] # 0 /\ st[held[c]] = "borrowed"
                   /\ held'[c] = 0)
          /\ (pipe[c] = "running" /\ pc[c] = "done" /\ pipe'[c] = "none")
               => (/\ st' = st /\ avail' = avail
                   /\ held' = held /\ queue' = queue)
     /\ \A k, n \in DOMAIN avail' : k # n => avail'[k] # avail'[n]
     /\ \A k \in DOMAIN avail' :
          /\ st'[avail'[k]] = "idle"
          /\ \A c \in Callers : held'[c] # avail'[k]]_vars

\* C26 witness: one render's acquire has timed out; another render ended
\* with the total timeout and its pipeline has settled since, while the
\* browser it had used is lent to a third render
C26_Witness ==
  \E a, b, c \in Renders :
    /\ pc[a] = "done" /\ res[a] = "AcquireTimeout"
    /\ pc[b] = "done" /\ res[b] = "promise timed out" /\ pipe[b] = "none"
    /\ pc[c] = "racing" /\ held[c] # 0
    /\ Cardinality(BorrowedNow) = 1 /\ Cardinality(Creating) = 0
    /\ avail = <<>>

\* C27 (as claimed): in the render functions of server.ts, pdf.ts and
\* part_001, when the followed render call has ended (with a pdf, with a
\* failure or with the timeout), the page its pipeline opened is not open
\* any more: page.close() has been called on it.
C27_PageClosedOnEveryExit ==
  (rev \in {"server.ts", "lib/pdf.ts", "part_001"} /\ pc[Followed] = "done")
    => page # "open"

\* the browsers in the pool's available list
Available == {avail[k] : k \in DOMAIN avail}

\* C28 (as claimed): health is checked only when a browser is borrowed.
\* The exit of a browser's process and the run of its 'disconnected'
\* listener change nothing in the pool: no browser changes state, the
\* available list, the waiting callers and the launches in progress stay as
\* they are.  A browser whose listener has run while a caller held it
\* becomes idle when it is released, unless a caller was waiting and the
\* borrow made for that caller validated it in the same step.  A browser is
\* destroyed only when a caller is asking for a browser, and after that step
\* every caller still waiting has a launch in progress or all max browsers
\* are lent.  And a browser whose listener has run leaves the available
\* list only to be destroyed: it is not lent.
C28_CheckedAtBorrowOnly ==
  [][/\ \A i \in Inst :
          (BrowserCrash(i) \/ Disconnected(i))
            => (/\ st' = st /\ avail' = avail /\ queue' = queue
                /\ held' = held /\ nxt' = nxt /\ LiveCount' = LiveCount)
     /\ \A c \in Callers :
          (held[c] # 0 /\ held'[c] = 0 /\ proc[held[c]] = "notified")
            => \/ st'[held[c]] = "idle"
               \/ st'[held[c]] = "destroyed" /\ QueueLen(queue) > 0
     /\ \A i \in Inst :
          (st[i] # "destroyed" /\ st'[i] = "destroyed")
            => (/\ \/ QueueLen(queue) > 0
                   \/ \E c \in Callers : RenderStart(c) \/ ProbeStart(c)
                /\ QueueLen(queue') > 0
                     => (Creating' # {}
                           \/ Cardinality(BorrowedNow') = MaxSize))
     /\ \A i \in Inst :
          (proc[i] = "notified" /\ st[i] = "idle" /\ i \notin Available')
            => st'[i] = "destroyed"]_vars

====
